---- MODULE Spec2Model ----
(***************************************************************************)
(* BugViper: job tracking, task delivery and webhook handling of the API   *)
(* and the ingestion worker (specification Spec), and the graph writes of  *)
(* the full ingestion and of the incremental updater (specification        *)
(* SpecGraph).                                                             *)
(***************************************************************************)
EXTENDS Integers, Sequences, FiniteSets, TLC

\* ------------------------------------------------------------------ bounds
MaxJobs == 2          \* job ids the API can allocate (uuid4 values)
MaxExternal == 1      \* job ids carried by payloads the API did not create
MaxRequests == 2      \* POST /ingest/github requests
MaxHandlers == 2      \* worker handler invocations
MaxBackground == 1    \* webhook background tasks
MaxUpdates == 2       \* incremental updates after the ingest
MaxDiffLen == 1       \* change records in one diff
MaxIngests == 2       \* full ingestions of the repository, one after the other
MaxWorkers == 2       \* jobs at work on the repository's scratch path
MaxPending == 2       \* push deliveries waiting for their update
MaxInitialFiles == 1  \* files of the repository when the overlapping pushes start
MaxStatementJobs == 3 \* file writes and file deletions followed statement by statement
MaxTransient == 3     \* consecutive transient driver errors met by one write

Repos == {"acme/app"}

ApiJobIds == 1..MaxJobs
ExternalJobIds == (MaxJobs + 1)..(MaxJobs + MaxExternal)
JobIds == ApiJobIds \cup ExternalJobIds
ReqIds == 1..MaxRequests
HandlerIds == 1..MaxHandlers
BgIds == 1..MaxBackground
WorkerIds == 1..MaxWorkers

\* ------------------------------------------------------- common/job_models
PENDING == "pending"
DISPATCHED == "dispatched"
RUNNING == "running"
COMPLETED == "completed"
FAILED == "failed"

None == "none"

TASKS_INGEST == "/tasks/ingest"
TASKS_INCREMENTAL_PR == "/tasks/incremental-pr"
TASKS_INCREMENTAL_PUSH == "/tasks/incremental-push"
IncrementalPaths == {TASKS_INCREMENTAL_PR, TASKS_INCREMENTAL_PUSH}

VARIABLES
    tracker,      \* the ingestion_jobs collection: job id -> document
    next_id,      \* next job id the API draws
    requests,     \* POST /ingest/github requests, by position in the handler
    queue,        \* task payloads the queue still holds
    handlers,     \* worker endpoint invocations, by position in the handler
    background,   \* webhook background tasks of the API process
    head,         \* the repository's working tree at HEAD: path -> content
    graph,        \* the repository's subgraph in the graph database
    gjob,         \* the ingestion or incremental update in progress, with its locals
    log,          \* the graph operations of the job in progress, in order
    updates,      \* incremental updates started so far
    ingests,      \* full ingestions started so far
    clone_dir,    \* the scratch path <tmp>/<owner>/<repo> of the repository
    fsjobs,       \* the jobs at work on the scratch path, by position
    pending,      \* change records of push deliveries not yet processed
    store,        \* the database as a multiset: node or edge tuple -> copies
    db,           \* the database with its Directory nodes, statement by statement
    tx            \* the file write or deletion whose statements are being run

jobVars == <<tracker, next_id, requests, queue, handlers, background>>
graphVars == <<head, graph, gjob, log, updates>>
auxVars == <<ingests, clone_dir, fsjobs, pending, store, db, tx>>
vars == <<tracker, next_id, requests, queue, handlers, background,
          head, graph, gjob, log, updates, ingests, clone_dir, fsjobs, pending, store, db, tx>>

\* -------------------------------------------------------- the job tracker
NoDoc == [exists |-> FALSE, repo |-> None, status |-> None, error_message |-> None]

\* JobTrackerService.create_job: document(job_id).set(...), status PENDING
create_job(t, job_id, repo) ==
    [t EXCEPT ![job_id] = [exists |-> TRUE, repo |-> repo, status |-> PENDING,
                           error_message |-> None]]

\* JobTrackerService.get_job
get_job(t, job_id) == IF t[job_id].exists THEN t[job_id] ELSE NoDoc

\* JobTrackerService.update_status: document(job_id).update(data); the caller
\* handles the NotFound the update raises for a missing document.
update_status(t, job_id, status, error_message) ==
    [t EXCEPT ![job_id].status = status,
              ![job_id].error_message =
                  IF error_message # None THEN error_message ELSE @]

active_statuses == {PENDING, DISPATCHED, RUNNING}

\* JobTrackerService.find_active_job: the documents the query matches; the
\* code takes any one of them (limit(1)).
find_active_job(t, repo) ==
    {j \in JobIds : t[j].exists /\ t[j].repo = repo /\ t[j].status \in active_statuses}

\* ------------------------------------------------- the engine's outcomes
\* Where AdvancedIngestionEngine.ingest_github_repository can fail.
IngestFaults == {"none", "no_access", "clone_failed", "graph_failed"}

\* The faults that are a failure of a pass-wide operation of the graph build.
PassWideFaults == {"graph_failed"}

\* the clone's errors caught by "except Exception" and returned as stats
ingest_github_repository_returning_clone_errors(fault) ==
    CASE fault = "no_access"    -> "raise"
      [] OTHER                  -> "return"

\* AdvancedIngestionEngine.ingest_github_repository: raise or return stats.
ingest_github_repository(fault) ==
    CASE fault = "no_access"    -> "raise"    \* line 102, GitHubAuthError
      [] fault = "clone_failed" -> "raise"    \* line 193, GitHubAuthError subclasses
      [] fault = "graph_failed" -> "return"   \* lines 186-197: raise, then
                                              \* return IngestionStats(errors)
      [] OTHER                  -> "return"   \* line 184

\* Where handleCodePush / handleDirectPush can fail.
IncrementalFaults == {"none", "github_api_failed", "repo_not_in_graph", "sync_failed"}

\* handleCodePush / handleDirectPush with update_graph_incrementally
incremental_update(fault) ==
    CASE fault = "github_api_failed" -> "raise"    \* get_pr_files / compare raises
      [] fault = "repo_not_in_graph" -> "return"   \* stats.errors, return stats
      [] fault = "sync_failed"       -> "return"   \* stats.errors, return stats
      [] OTHER                       -> "return"

FaultsOf(path) == IF path = TASKS_INGEST THEN IngestFaults ELSE IncrementalFaults

EngineResult(path, fault) ==
    IF path = TASKS_INGEST THEN ingest_github_repository(fault)
    ELSE incremental_update(fault)

\* ------------------------------------------------------------------ Init
IdleRequest == [pc |-> "idle", repo |-> None, job_id |-> 0, code |-> 0, created |-> FALSE]
IdleHandler == [pc |-> "idle", path |-> None, job_id |-> 0, repo |-> None,
                fault |-> None, wrote |-> None, code |-> 0, late |-> FALSE]
NoDelivery == [event |-> None, action |-> None, merged |-> FALSE, before |-> None,
               after |-> None, on_pull_request |-> FALSE, mention |-> FALSE]
IdleBackground == [pc |-> "idle", kind |-> None, repo |-> None, endpoint |-> None,
                   delivery |-> NoDelivery]

JobInit ==
    /\ tracker = [j \in JobIds |-> NoDoc]
    /\ next_id = 1
    /\ requests = [q \in ReqIds |-> IdleRequest]
    /\ queue = {}
    /\ handlers = [h \in HandlerIds |-> IdleHandler]
    /\ background = [b \in BgIds |-> IdleBackground]

\* ------------------------------------- api/routers/ingestion.py (API side)
\* ingest_github_repository, lines 59-66: the duplicate check, then the await
\* of the GitHub metadata.
ApiFindActive(q, r) ==
    /\ requests[q].pc = "idle"
    /\ \A q2 \in ReqIds : q2 < q => requests[q2].pc # "idle"
    /\ IF find_active_job(tracker, r) # {}
       THEN \E existing \in find_active_job(tracker, r) :
              requests' = [requests EXCEPT ![q] =
                  [pc |-> "done", repo |-> r, job_id |-> existing, code |-> 200,
                   created |-> FALSE]]
       ELSE requests' = [requests EXCEPT ![q] =
                  [pc |-> "fetching", repo |-> r, job_id |-> 0, code |-> 0,
                   created |-> FALSE]]
    /\ UNCHANGED <<tracker, next_id, queue, handlers, background>>

\* ingest_github_repository, lines 100-108 and 181-204: the job id, create_job
\* and the dispatch; dispatch is the queue accepting the task ("ok"),
\* _dispatch returning None ("none") or the queue client raising ("raise").
ApiCreateJob(q, dispatch) ==
    /\ requests[q].pc = "fetching"
    /\ next_id <= MaxJobs
    /\ LET job_id == next_id
           r == requests[q].repo
           created == create_job(tracker, job_id, r)
       IN  /\ next_id' = next_id + 1
           /\ CASE dispatch = "ok" ->
                     /\ tracker' = created
                     /\ queue' = queue \cup {[path |-> TASKS_INGEST, job_id |-> job_id, repo |-> r]}
                     /\ requests' = [requests EXCEPT ![q].pc = "enqueued",
                                                     ![q].job_id = job_id,
                                                     ![q].created = TRUE]
                [] dispatch = "none" ->
                     /\ tracker' = update_status(created, job_id, FAILED,
                                                 "Failed to dispatch Cloud Task")
                     /\ queue' = queue
                     /\ requests' = [requests EXCEPT ![q].pc = "done",
                                                     ![q].job_id = job_id,
                                                     ![q].created = TRUE,
                                                     ![q].code = 500]
                [] OTHER ->
                     /\ tracker' = created
                     /\ queue' = queue
                     /\ requests' = [requests EXCEPT ![q].pc = "done",
                                                     ![q].job_id = job_id,
                                                     ![q].created = TRUE,
                                                     ![q].code = 500]
    /\ UNCHANGED <<handlers, background>>

\* ingest_github_repository, lines 185-188 and 206-211
ApiMarkDispatched(q) ==
    /\ requests[q].pc = "enqueued"
    /\ tracker' = update_status(tracker, requests[q].job_id, DISPATCHED, None)
    /\ requests' = [requests EXCEPT ![q].pc = "done", ![q].code = 200]
    /\ UNCHANGED <<next_id, queue, handlers, background>>

\* ---------------------------------------------------------- the task queue
\* (background_tasks.add_task of the webhooks is further down: the task runs
\* in the API process, not through this queue)
\* A payload reaches a worker endpoint from outside the ingest endpoint:
\* CloudTasksService.dispatch_incremental_pr / _push, or a direct call.
PostTask(path, j, r) ==
    /\ path \in IncrementalPaths \cup {TASKS_INGEST}
    /\ j \in ExternalJobIds
    /\ [path |-> path, job_id |-> j, repo |-> r] \notin queue
    /\ \A t \in queue : t.job_id # j
    /\ \A h \in HandlerIds : handlers[h].job_id # j
    /\ queue' = queue \cup {[path |-> path, job_id |-> j, repo |-> r]}
    /\ UNCHANGED <<tracker, next_id, requests, handlers, background>>

\* deliver(payload): HTTP POST to the worker, at least once; the task stays
\* in the queue until a delivery of it is answered with a 2xx.
Deliver(h, t) ==
    /\ t \in queue
    /\ handlers[h].pc = "idle"
    /\ \A h2 \in HandlerIds : h2 < h => handlers[h2].pc # "idle"
    /\ handlers' = [handlers EXCEPT ![h] =
           [pc |-> "received", path |-> t.path, job_id |-> t.job_id, repo |-> t.repo,
            fault |-> None, wrote |-> None, code |-> 0, late |-> FALSE]]
    /\ UNCHANGED <<tracker, next_id, requests, queue, background>>

Respond(h, code) ==
    [handlers EXCEPT ![h].pc = "done", ![h].code = code]

\* a 2xx answered within the dispatch deadline removes the task
Acked(h) ==
    IF handlers[h].late THEN queue
    ELSE queue \ {[path |-> handlers[h].path, job_id |-> handlers[h].job_id,
                   repo |-> handlers[h].repo]}

\* CloudTasksService._dispatch line 62: the dispatch deadline of the task
\* passes while the handler runs; the queue gives the attempt up, and the
\* handlers have no timer of their own
DeadlineExceeded(h) ==
    /\ handlers[h].pc = "running"
    /\ ~handlers[h].late
    /\ handlers' = [handlers EXCEPT ![h].late = TRUE]
    /\ UNCHANGED <<tracker, next_id, requests, queue, background>>

\* ------------------------------- ingestion_service/routers (worker side)
\* handle_ingestion_task lines 38-43, handle_incremental_pr lines 41-53,
\* handle_incremental_push lines 96-97: up to update_status(RUNNING).
\* tracker_fails: the first tracker call of the handler raises.
HandlerStart(h, tracker_fails) ==
    /\ handlers[h].pc = "received"
    /\ LET me == handlers[h]
           ensured == IF get_job(tracker, me.job_id).exists THEN tracker
                      ELSE create_job(tracker, me.job_id, me.repo)
       IN  CASE me.path = TASKS_INGEST ->
                  \* everything is inside the try
                  IF tracker_fails
                  THEN /\ handlers' = [handlers EXCEPT ![h].pc = "except"]
                       /\ UNCHANGED tracker
                  ELSE /\ tracker' = update_status(ensured, me.job_id, RUNNING, None)
                       /\ handlers' = [handlers EXCEPT ![h].pc = "running",
                                                       ![h].wrote = RUNNING]
             [] me.path = TASKS_INCREMENTAL_PR ->
                  \* get_job and create_job are outside the try
                  IF tracker_fails
                  THEN /\ handlers' = Respond(h, 500)
                       /\ UNCHANGED tracker
                  ELSE /\ tracker' = update_status(ensured, me.job_id, RUNNING, None)
                       /\ handlers' = [handlers EXCEPT ![h].pc = "running",
                                                       ![h].wrote = RUNNING]
             [] OTHER ->
                  \* no get_job: update() of a missing document raises NotFound
                  IF tracker_fails \/ ~tracker[me.job_id].exists
                  THEN /\ handlers' = [handlers EXCEPT ![h].pc = "except"]
                       /\ UNCHANGED tracker
                  ELSE /\ tracker' = update_status(tracker, me.job_id, RUNNING, None)
                       /\ handlers' = [handlers EXCEPT ![h].pc = "running",
                                                       ![h].wrote = RUNNING]
    /\ UNCHANGED <<next_id, requests, queue, background>>

\* handle_ingestion_task lines 45-71, handle_incremental_pr lines 55-68,
\* handle_incremental_push lines 99-113: the engine runs, then
\* update_status(COMPLETED) and the 200.
HandlerFinish(h, fault, tracker_fails) ==
    /\ handlers[h].pc = "running"
    /\ fault \in FaultsOf(handlers[h].path)
    /\ LET me == handlers[h]
       IN  IF EngineResult(me.path, fault) = "raise" \/ tracker_fails
                \/ ~tracker[me.job_id].exists
           THEN /\ handlers' = [handlers EXCEPT ![h].pc = "except", ![h].fault = fault]
                /\ UNCHANGED <<tracker, queue>>
           ELSE /\ tracker' = update_status(tracker, me.job_id, COMPLETED, None)
                /\ handlers' = [Respond(h, 200) EXCEPT ![h].fault = fault,
                                                       ![h].wrote = COMPLETED]
                /\ queue' = Acked(h)
    /\ UNCHANGED <<next_id, requests, background>>

\* handle_ingestion_task lines 73-82, handle_incremental_pr lines 70-79,
\* handle_incremental_push lines 115-124: except Exception.
HandlerExcept(h, tracker_fails) ==
    /\ handlers[h].pc = "except"
    /\ LET me == handlers[h]
       IN  IF tracker_fails \/ ~tracker[me.job_id].exists
           THEN \* update_status raises inside the except block: the
                \* exception leaves the handler
                /\ handlers' = Respond(h, 500)
                /\ UNCHANGED <<tracker, queue>>
           ELSE /\ tracker' = update_status(tracker, me.job_id, FAILED, "exc")
                /\ handlers' = [Respond(h, 200) EXCEPT ![h].wrote = FAILED]
                /\ queue' = Acked(h)
    /\ UNCHANGED <<next_id, requests, background>>

\* --------------------------------------- api/routers/webhook.py (API side)
ZERO_SHA == "0000000000000000000000000000000000000000"

\* The webhook deliveries the model draws from.
Delivery(event, action, merged, before, after, on_pull_request, mention) ==
    [event |-> event, action |-> action, merged |-> merged, before |-> before,
     after |-> after, on_pull_request |-> on_pull_request, mention |-> mention]

Deliveries ==
    {Delivery("push", None, FALSE, b, a, FALSE, FALSE) :
        b \in {ZERO_SHA, "sha1"}, a \in {ZERO_SHA, "sha2"}}
    \cup
    {Delivery("pull_request", act, m, "sha1", "sha2", FALSE, FALSE) :
        act \in {"closed", "opened", "reopened"}, m \in BOOLEAN}
    \cup
    {Delivery("issue_comment", act, FALSE, "sha1", "sha2", pr, m) :
        act \in {"created", "deleted", "edited"}, pr \in BOOLEAN, m \in BOOLEAN}
    \cup
    {Delivery(event, None, FALSE, "sha1", "sha2", FALSE, FALSE) :
        event \in {"ping", "installation"}}

\* on_push without the check of before_sha: a new branch starts an update
on_push_accepting_new_branches(d) ==
    IF d.event # "push" THEN "ignored"
    ELSE IF d.after = ZERO_SHA THEN "ignored"
    ELSE "push"

\* on_push lines 48-86: the kind of background task the delivery adds
on_push(d) ==
    IF d.event # "push" THEN "ignored"
    ELSE IF d.after = ZERO_SHA THEN "ignored"
    ELSE IF d.before = ZERO_SHA THEN "ignored"
    ELSE "push"

\* on_comment lines 113-176
on_comment(d) ==
    IF d.event = "push" THEN "ignored"
    ELSE IF d.event = "pull_request"
         THEN IF d.action # "closed" THEN "ignored"
              ELSE IF ~d.merged THEN "ignored"
              ELSE "pr"
    ELSE IF d.event # "issue_comment" THEN "ignored"
    ELSE IF d.action # "created" THEN "ignored"
    ELSE IF ~d.on_pull_request THEN "ignored"
    ELSE IF ~d.mention THEN "ignored"
    ELSE "review"

Webhook(b, r, endpoint, d, kind) ==
    /\ background[b].pc = "idle"
    /\ \A b2 \in BgIds : b2 < b => background[b2].pc # "idle"
    /\ background' = [background EXCEPT ![b] =
           [pc |-> IF kind = "ignored" THEN "ignored" ELSE "running",
            kind |-> IF kind = "ignored" THEN None ELSE kind,
            repo |-> r, endpoint |-> endpoint, delivery |-> d]]
    /\ UNCHANGED <<tracker, next_id, requests, queue, handlers>>

OnPush(b, r, d) == Webhook(b, r, "onPush", d, on_push(d))

OnComment(b, r, d) == Webhook(b, r, "onComment", d, on_comment(d))

\* _run_incremental_update / _run_pr_incremental_update / execute_pr_review
\* run to their end; every exception is logged and dropped.
BackgroundDone(b) ==
    /\ background[b].pc = "running"
    /\ background' = [background EXCEPT ![b].pc = "done", ![b].kind = None]
    /\ UNCHANGED <<tracker, next_id, requests, queue, handlers>>

\* ------------------------------------------------------------ writers
\* Who is executing graph writes for repository r: worker handlers between
\* update_status(RUNNING) and the end of the engine, and webhook background
\* tasks running the incremental updater.
HandlerWriters(r) ==
    {h \in HandlerIds : handlers[h].pc = "running" /\ handlers[h].repo = r}

BackgroundWriters(r) ==
    {b \in BgIds : /\ background[b].pc = "running"
                   /\ background[b].repo = r
                   /\ background[b].kind \in {"push", "pr"}}

\* ======================================================================
\* The code graph: repository contents, parsing, graph writes, resolvers
\* ======================================================================
Paths == {"a.py", "b.py", "c.py"}
PathOrder == <<"a.py", "b.py", "c.py">>
Absent == "absent"
SourceIds == {"base", "child", "user"}
Names == {"f", "g", "h", "K", "L"}

\* The file contents the model draws from, as the parser's file_data.
Source(id) ==
    CASE id = "base" ->
           [functions |-> {"f"},
            classes |-> {[name |-> "K", bases |-> {}]},
            function_calls |-> {},
            imports |-> {}]
      [] id = "child" ->
           [functions |-> {"g"},
            classes |-> {[name |-> "L", bases |-> {"K"}]},
            function_calls |-> {[context |-> "g", name |-> "f"]},
            imports |-> {"a"}]
      [] OTHER ->
           [functions |-> {"f", "h"},
            classes |-> {},
            function_calls |-> {[context |-> "h", name |-> "g"]},
            imports |-> {}]

Trees == [Paths -> SourceIds \cup {Absent}]

EmptyGraph == [repo_node |-> FALSE, files |-> {}, symbols |-> {},
               calls |-> {}, inherits |-> {}]

\* ---- sequences of paths
SeqOfPaths(S) == SelectSeq(PathOrder, LAMBDA p : p \in S)
Min(S) == CHOOSE x \in S : \A y \in S : x <= y
MapGet(m, k) == IF k \in DOMAIN m THEN m[k] ELSE <<>>

\* "imp.replace('.', '/') in path" for the model's import names and paths
ImportInPath(imp, path) ==
    \/ imp = "a" /\ path = "a.py"
    \/ imp = "b" /\ path = "b.py"
    \/ imp = "c" /\ path = "c.py"

\* GraphBuilder.parse_file
parse_file(tree, path) ==
    [path |-> path,
     functions |-> Source(tree[path]).functions,
     classes |-> Source(tree[path]).classes,
     function_calls |-> Source(tree[path]).function_calls,
     imports |-> Source(tree[path]).imports]

\* pre_scan_python: every top-level function and class name -> the files
\* (in the order given) that define it
pre_scan_python(tree, files) ==
    [n \in Names |->
        SelectSeq(files, LAMBDA p :
            \/ n \in Source(tree[p]).functions
            \/ n \in {c.name : c \in Source(tree[p]).classes})]

\* GraphBuilder._pre_scan_for_imports: all files of the model are '.py'
_pre_scan_for_imports(tree, files) == pre_scan_python(tree, files)

\* GraphBuilder.add_repository_to_graph
add_repository_to_graph(G) == [G EXCEPT !.repo_node = TRUE]

\* GraphBuilder.add_file_to_graph: MERGE of the File and of its symbols
add_file_to_graph(G, file_data) ==
    [G EXCEPT
       !.files = @ \cup {file_data.path},
       !.symbols = @ \cup
          {[label |-> "Function", name |-> n, path |-> file_data.path] :
               n \in file_data.functions}
          \cup
          {[label |-> "Class", name |-> c.name, path |-> file_data.path] :
               c \in file_data.classes}]

local_names(file_data) ==
    file_data.functions \cup {c.name : c \in file_data.classes}

\* first element of seq satisfying Test, or None
FirstWhere(seq, Test(_)) ==
    LET hits == {i \in 1..Len(seq) : Test(seq[i])}
    IN  IF hits = {} THEN None ELSE seq[Min(hits)]

\* GraphBuilder._create_function_calls lines 633-699: the path the called
\* name resolves to (calls without a dotted name or an inferred type)
resolve_call(file_data, called_name, imports_map) ==
    LET caller_relative_path == file_data.path
        lookup_name == called_name
        local_imports == file_data.imports
        possible_paths == MapGet(imports_map, lookup_name)
        step1 == IF lookup_name \in local_names(file_data)
                 THEN caller_relative_path ELSE None
        step3 ==
            IF step1 # None THEN step1
            ELSE IF Len(possible_paths) = 1 THEN possible_paths[1]
            ELSE IF Len(possible_paths) > 1 /\ lookup_name \in local_imports
                 THEN IF Len(MapGet(imports_map, lookup_name)) = 1
                      THEN MapGet(imports_map, lookup_name)[1]
                      ELSE FirstWhere(possible_paths,
                                      LAMBDA p : ImportInPath(lookup_name, p))
            ELSE None
        candidates == MapGet(imports_map, called_name)
        byImport == FirstWhere(candidates,
                        LAMBDA p : \E imp \in local_imports : ImportInPath(imp, p))
    IN  IF step3 # None THEN step3
        ELSE IF called_name \in local_names(file_data) THEN caller_relative_path
        ELSE IF Len(candidates) > 0
             THEN IF byImport # None THEN byImport ELSE candidates[1]
        ELSE caller_relative_path

\* GraphBuilder._create_function_calls lines 701-753: the MERGE of one
\* CALLS edge per call whose caller and called nodes match
_create_function_calls(G, file_data, imports_map) ==
    [G EXCEPT !.calls = @ \cup
        {[caller_path |-> file_data.path, caller |-> call.context,
          called_path |-> resolve_call(file_data, call.name, imports_map),
          called |-> call.name] :
         call \in {c \in file_data.function_calls :
             /\ IF c.context # None
                THEN \E s \in G.symbols : /\ s.name = c.context
                                          /\ s.path = file_data.path
                ELSE file_data.path \in G.files
             /\ \E s \in G.symbols :
                    /\ s.name = c.name
                    /\ s.path = resolve_call(file_data, c.name, imports_map)}}]

\* GraphBuilder._create_inheritance_links lines 776-811: the path a base
\* class name resolves to, or None
resolve_base(file_data, base_class_str, imports_map) ==
    LET lookup_name == base_class_str
        local_class_names == {c.name : c \in file_data.classes}
        possible_paths == MapGet(imports_map, lookup_name)
    IN  IF lookup_name \in local_class_names THEN file_data.path
        ELSE IF lookup_name \in file_data.imports
             THEN FirstWhere(possible_paths, LAMBDA p : ImportInPath(lookup_name, p))
        ELSE IF Len(possible_paths) = 1 THEN possible_paths[1]
        ELSE None

\* GraphBuilder._create_inheritance_links lines 813-823
_create_inheritance_links(G, file_data, imports_map) ==
    [G EXCEPT !.inherits = @ \cup
        {[child_path |-> file_data.path, child |-> cb[1],
          parent_path |-> resolve_base(file_data, cb[2], imports_map),
          parent |-> cb[2]] :
         cb \in {x \in {<<c.name, b>> : c \in file_data.classes, b \in Names} :
             /\ \E c \in file_data.classes : c.name = x[1] /\ x[2] \in c.bases
             /\ resolve_base(file_data, x[2], imports_map) # None
             /\ [label |-> "Class", name |-> x[1], path |-> file_data.path] \in G.symbols
             /\ [label |-> "Class", name |-> x[2],
                 path |-> resolve_base(file_data, x[2], imports_map)] \in G.symbols}}]

RECURSIVE FoldFiles(_, _, _, _)
\* apply Op(G, file_data, imports_map) to the files of a list, in order
FoldFiles(Op(_, _, _), G, all_file_data, imports_map) ==
    IF all_file_data = <<>> THEN G
    ELSE FoldFiles(Op, Op(G, Head(all_file_data), imports_map),
                   Tail(all_file_data), imports_map)

\* GraphBuilder._create_all_inheritance_links
_create_all_inheritance_links(G, all_file_data, imports_map) ==
    FoldFiles(_create_inheritance_links, G, all_file_data, imports_map)

\* GraphBuilder._create_all_function_calls
_create_all_function_calls(G, all_file_data, imports_map) ==
    FoldFiles(_create_function_calls, G, all_file_data, imports_map)

\* ---- api/services/push_service.py: the updater's graph queries
\* _delete_incoming_calls_to_file without the "callee.path = $path" condition
_delete_incoming_calls_to_file_any_callee(G, relative_path) ==
    [G EXCEPT !.calls = {e \in @ : ~(e.caller_path # relative_path)}]

\* IncrementalGraphUpdater._delete_incoming_calls_to_file
_delete_incoming_calls_to_file(G, relative_path) ==
    [G EXCEPT !.calls =
        {e \in @ : ~(e.called_path = relative_path /\ e.caller_path # relative_path)}]

\* _delete_file_nodes_and_relationships keeping the INHERITS edges of the
\* deleted nodes
_delete_file_nodes_keeping_inherits(G, relative_path) ==
    IF relative_path \notin G.files THEN G
    ELSE [G EXCEPT
            !.files = @ \ {relative_path},
            !.symbols = {s \in @ : s.path # relative_path},
            !.calls = {e \in @ : /\ e.caller_path # relative_path
                                 /\ e.called_path # relative_path}]

\* IncrementalGraphUpdater._delete_file_nodes_and_relationships: DETACH
\* DELETE of the File and of everything it CONTAINS
_delete_file_nodes_and_relationships(G, relative_path) ==
    IF relative_path \notin G.files THEN G
    ELSE [G EXCEPT
            !.files = @ \ {relative_path},
            !.symbols = {s \in @ : s.path # relative_path},
            !.calls = {e \in @ : /\ e.caller_path # relative_path
                                 /\ e.called_path # relative_path},
            !.inherits = {e \in @ : /\ e.child_path # relative_path
                                    /\ e.parent_path # relative_path}]

\* GraphBuilder.delete_file_from_graph: DETACH DELETE of the File and of the
\* elements it CONTAINS
delete_file_from_graph(G, relative_path) ==
    IF relative_path \notin G.files THEN G
    ELSE [G EXCEPT
            !.files = @ \ {relative_path},
            !.symbols = {s \in @ : s.path # relative_path},
            !.calls = {e \in @ : /\ e.caller_path # relative_path
                                 /\ e.called_path # relative_path},
            !.inherits = {e \in @ : /\ e.child_path # relative_path
                                    /\ e.parent_path # relative_path}]

\* IncrementalGraphUpdater._get_files_that_call_into
_get_files_that_call_into(G, relative_path) ==
    {e.caller_path : e \in {x \in G.calls : /\ x.called_path = relative_path
                                            /\ x.caller_path # relative_path}}

\* IncrementalGraphUpdater._get_files_that_inherit_from
_get_files_that_inherit_from(G, relative_path) ==
    {e.child_path : e \in {x \in G.inherits : /\ x.parent_path = relative_path
                                              /\ x.child_path # relative_path}}

\* IncrementalGraphUpdater._get_existing_imports_map: name -> paths of the
\* symbols in the graph (the query's row order taken as path order)
_get_existing_imports_map(G) ==
    [n \in Names |-> SeqOfPaths({s.path : s \in {x \in G.symbols : x.name = n}})]

\* ---- update_graph_incrementally, phase by phase
\* phase 1 (lines 413-448): the lists the change records are split into
RECURSIVE classify(_)
classify(changed_files) ==
    IF changed_files = <<>>
    THEN [files_to_delete |-> <<>>, files_to_add |-> <<>>,
          files_to_modify |-> <<>>, affected_relative_paths |-> {}]
    ELSE LET file_change == Head(changed_files)
             filename == file_change.filename
             status == file_change.status
             previous_filename == file_change.previous_filename
             rest == classify(Tail(changed_files))
         IN  CASE status = "removed" ->
                    [rest EXCEPT !.files_to_delete = <<filename>> \o @,
                                 !.affected_relative_paths = @ \cup {filename}]
               [] status = "added" ->
                    [rest EXCEPT !.files_to_add = <<filename>> \o @,
                                 !.affected_relative_paths = @ \cup {filename}]
               [] status = "modified" ->
                    [rest EXCEPT !.files_to_modify = <<filename>> \o @,
                                 !.affected_relative_paths = @ \cup {filename}]
               [] status = "renamed" ->
                    [rest EXCEPT
                       !.files_to_delete =
                           (IF previous_filename # None
                            THEN <<previous_filename>> ELSE <<>>) \o @,
                       !.files_to_add = <<filename>> \o @,
                       !.affected_relative_paths =
                           @ \cup {filename} \cup
                           (IF previous_filename # None
                            THEN {previous_filename} ELSE {})]
               [] OTHER ->
                    [rest EXCEPT !.affected_relative_paths = @ \cup {filename}]

\* phase 2 (lines 452-462)
find_dependent_files(G, affected_relative_paths) ==
    UNION {_get_files_that_call_into(G, p) \cup _get_files_that_inherit_from(G, p) :
           p \in affected_relative_paths}

\* phase 3 (lines 464-476)
RECURSIVE delete_stale(_, _)
delete_stale(G, paths_to_delete) ==
    IF paths_to_delete = <<>> THEN G
    ELSE delete_stale(
            _delete_file_nodes_and_relationships(
                _delete_incoming_calls_to_file(G, Head(paths_to_delete)),
                Head(paths_to_delete)),
            Tail(paths_to_delete))

\* phases 4 and 5 (lines 478-495): the map from the graph, extended by the
\* pre-scan of the new and modified files present in the working tree
build_imports_map(G, tree, new_paths) ==
    LET existing_imports_map == _get_existing_imports_map(G)
        all_new_file_paths == SelectSeq(new_paths, LAMBDA p : tree[p] # Absent)
        new_imports_map == _pre_scan_for_imports(tree, all_new_file_paths)
    IN  IF all_new_file_paths = <<>> THEN existing_imports_map
        ELSE [n \in Names |-> existing_imports_map[n] \o new_imports_map[n]]

\* the file_data of the files of a list that exist in the working tree
ParseAll(tree, paths) ==
    LET present == SelectSeq(paths, LAMBDA p : tree[p] # Absent)
    IN  [i \in 1..Len(present) |-> parse_file(tree, present[i])]

RECURSIVE add_files(_, _)
\* phase 6 (lines 501-525) and the per-file loop of build_project_graph
add_files(G, all_file_data) ==
    IF all_file_data = <<>> THEN G
    ELSE add_files(add_file_to_graph(G, Head(all_file_data)), Tail(all_file_data))

\* phase 7 (lines 529-537)
rebuild_relationships(G, new_file_data_list, imports_map) ==
    IF new_file_data_list = <<>> THEN G
    ELSE _create_all_function_calls(
            _create_all_inheritance_links(G, new_file_data_list, imports_map),
            new_file_data_list, imports_map)

\* phase 8 (lines 541-562): the dependent files that are re-parsed
dependent_paths(tree, dependent_files, affected_relative_paths) ==
    SeqOfPaths({p \in dependent_files :
                   p \notin affected_relative_paths /\ tree[p] # Absent})

rebuild_dependents(G, tree, dependent_files, affected_relative_paths, imports_map) ==
    LET dependent_file_data_list ==
            ParseAll(tree, dependent_paths(tree, dependent_files, affected_relative_paths))
    IN  IF dependent_file_data_list = <<>> THEN G
        ELSE _create_all_function_calls(G, dependent_file_data_list, imports_map)

\* update_graph_incrementally with the files written before the pre-scan
UpdatePhases_write_first == <<"phase0", "phase1", "phase3", "phase6", "phase4",
                              "phase7", "phase8", "done">>

\* the order of the phases of update_graph_incrementally
UpdatePhases == <<"phase0", "phase1", "phase3", "phase4", "phase6", "phase7",
                  "phase8", "done">>

\* the order of the steps of build_project_graph
IngestPhases == <<"repository", "prescan", "files", "done">>

After(phases, pc) == phases[(CHOOSE i \in 1..Len(phases) : phases[i] = pc) + 1]

\* ---- the pushes the model draws from
ChangeRecords(tree) ==
    {[filename |-> p, status |-> "added", previous_filename |-> None, content |-> c] :
        p \in {x \in Paths : tree[x] = Absent}, c \in SourceIds}
    \cup
    {[filename |-> p, status |-> "removed", previous_filename |-> None,
      content |-> Absent] : p \in {x \in Paths : tree[x] # Absent}}
    \cup
    {r \in [filename : Paths, status : {"modified"}, previous_filename : {None},
            content : SourceIds] :
        tree[r.filename] # Absent /\ tree[r.filename] # r.content}
    \cup
    {r \in [filename : Paths, status : {"renamed"}, previous_filename : Paths,
            content : SourceIds] :
        /\ tree[r.filename] = Absent
        /\ tree[r.previous_filename] = r.content}

Touched(rec) ==
    {rec.filename} \cup
    (IF rec.previous_filename # None THEN {rec.previous_filename} ELSE {})

Diffs(tree) ==
    {D \in SUBSET ChangeRecords(tree) :
        /\ Cardinality(D) >= 1
        /\ Cardinality(D) <= MaxDiffLen
        /\ \A x, y \in D : x # y => Touched(x) \cap Touched(y) = {}}

Apply(tree, D) ==
    [p \in Paths |->
        IF \E rec \in D : rec.filename = p
        THEN (CHOOSE rec \in D : rec.filename = p).content
        ELSE IF \E rec \in D : rec.previous_filename = p THEN Absent
        ELSE tree[p]]

\* the change records in the order of their file names, as the host lists them
ChangedFiles(D) ==
    LET ordered == SeqOfPaths({rec.filename : rec \in D})
    IN  [i \in 1..Len(ordered) |->
            LET rec == CHOOSE x \in D : x.filename = ordered[i]
            IN  [filename |-> rec.filename, status |-> rec.status,
                 previous_filename |-> rec.previous_filename]]

\* handleDirectPush._compare_commits lines 681-690: filename, status and
\* previous_filename of every file of the comparison
_compare_commits(D) == ChangedFiles(D)

\* GitHubClient.get_pr_files lines 312-322: filename and status of every file
\* of the pull request; the dicts carry no previous_filename
get_pr_files(D) ==
    [i \in 1..Len(ChangedFiles(D)) |->
        [filename |-> ChangedFiles(D)[i].filename,
         status |-> ChangedFiles(D)[i].status,
         previous_filename |-> None]]

\* the renames of a diff: the path before and the path after
Renames(D) ==
    {[previous_filename |-> rec.previous_filename, filename |-> rec.filename] :
        rec \in {x \in D : x.status = "renamed"}}

\* ======================================================================
\* SpecGraph: one repository, its full ingestion and its incremental updates
\* ======================================================================
EmptyMap == [n \in Names |-> <<>>]

\* the record of one write: how it reached the driver, the transient errors
\* it met, the attempts made, the sleeps between them, whether it went through
NoWrite == [via |-> None, failures |-> 0, attempts |-> 0, waits |-> <<>>, ok |-> TRUE]

NoJob(tree) ==
    [kind |-> "none", pc |-> "idle", status |-> None, files |-> <<>>,
     imports_map |-> EmptyMap, changed_files |-> <<>>,
     files_to_delete |-> <<>>, files_to_add |-> <<>>, files_to_modify |-> <<>>,
     affected_relative_paths |-> {}, dependent_files |-> {},
     new_file_data_list |-> <<>>, graph0 |-> EmptyGraph, head0 |-> tree,
     fault |-> None, clear_existing |-> FALSE, errors |-> FALSE,
     last_write |-> NoWrite, renamed |-> {}, parse_failed |-> {},
     stats_errors |-> {}]

GraphInit ==
    /\ head \in Trees
    /\ graph = EmptyGraph
    /\ gjob = NoJob(head)
    /\ log = <<>>
    /\ updates = 0

JobFree == gjob.pc \in {"idle", "done"}

\* handle_ingestion_task up to build_project_graph line 301: the job is
\* RUNNING, the Repository node is merged, the source files are listed
IngestStart ==
    /\ JobFree
    /\ ~graph.repo_node
    /\ graph' = add_repository_to_graph(graph)
    /\ gjob' = [NoJob(head) EXCEPT
                  !.kind = "ingest",
                  !.pc = After(IngestPhases, "repository"),
                  !.status = RUNNING,
                  !.files = SeqOfPaths({p \in Paths : head[p] # Absent}),
                  !.graph0 = graph]
    /\ log' = <<"repository">>
    /\ UNCHANGED <<head, updates>>

\* build_project_graph lines 303-305
IngestPreScan ==
    /\ gjob.kind = "ingest"
    /\ gjob.pc = "prescan"
    /\ gjob' = [gjob EXCEPT
                  !.imports_map = _pre_scan_for_imports(head, gjob.files),
                  !.pc = After(IngestPhases, "prescan")]
    /\ log' = Append(log, "prescan")
    /\ UNCHANGED <<head, graph, updates>>

\* build_project_graph lines 314-337, one file of the loop
IngestFile ==
    /\ gjob.kind = "ingest"
    /\ gjob.pc = "files"
    /\ gjob.files # <<>>
    /\ graph' = add_file_to_graph(graph, parse_file(head, Head(gjob.files)))
    /\ gjob' = [gjob EXCEPT !.files = Tail(@)]
    /\ log' = Append(log, "write")
    /\ UNCHANGED <<head, updates>>

\* build_project_graph lines 339-350, the engine's return and
\* handle_ingestion_task lines 58-71: update_status(COMPLETED)
IngestFinish ==
    /\ gjob.kind = "ingest"
    /\ gjob.pc = "files"
    /\ gjob.files = <<>>
    /\ gjob' = [gjob EXCEPT !.pc = "done", !.status = COMPLETED]
    /\ UNCHANGED <<head, graph, log, updates>>

\* A push or a PR merge moves HEAD; its change records reach the updater
\* (handleDirectPush / handleCodePush), whose working tree is synced to HEAD.
Push(D) ==
    /\ JobFree
    /\ updates < MaxUpdates
    /\ D \in Diffs(head)
    /\ head' = Apply(head, D)
    /\ gjob' = [NoJob(head) EXCEPT
                  !.kind = "update",
                  !.pc = "phase0",
                  !.changed_files = _compare_commits(D),
                  !.renamed = Renames(D),
                  !.graph0 = graph]
    /\ log' = <<>>
    /\ updates' = updates + 1
    /\ UNCHANGED graph

\* A merged pull request moves HEAD; handleCodePush lines 606-625 hands the
\* files of get_pr_files to the updater.
MergePR(D) ==
    /\ JobFree
    /\ updates < MaxUpdates
    /\ D \in Diffs(head)
    /\ head' = Apply(head, D)
    /\ gjob' = [NoJob(head) EXCEPT
                  !.kind = "update",
                  !.pc = "phase0",
                  !.changed_files = get_pr_files(D),
                  !.renamed = Renames(D),
                  !.graph0 = graph]
    /\ log' = <<>>
    /\ updates' = updates + 1
    /\ UNCHANGED graph

\* update_graph_incrementally lines 380-396
UpdateCheckRepository ==
    /\ gjob.kind = "update"
    /\ gjob.pc = "phase0"
    /\ gjob' = [gjob EXCEPT !.pc = IF graph.repo_node
                                   THEN After(UpdatePhases, "phase0") ELSE "done"]
    /\ UNCHANGED <<head, graph, log, updates>>

\* phases 1 and 2, lines 406-462
UpdateClassify ==
    /\ gjob.kind = "update"
    /\ gjob.pc = "phase1"
    /\ LET c == classify(gjob.changed_files)
       IN  gjob' = [gjob EXCEPT
              !.files_to_delete = c.files_to_delete,
              !.files_to_add = c.files_to_add,
              !.files_to_modify = c.files_to_modify,
              !.affected_relative_paths = c.affected_relative_paths,
              !.dependent_files = find_dependent_files(graph, c.affected_relative_paths),
              !.pc = After(UpdatePhases, "phase1")]
    /\ UNCHANGED <<head, graph, log, updates>>

\* phase 3, lines 464-476
UpdateDeleteStale ==
    /\ gjob.kind = "update"
    /\ gjob.pc = "phase3"
    /\ LET paths_to_delete == gjob.files_to_delete \o gjob.files_to_modify
       IN  /\ graph' = delete_stale(graph, paths_to_delete)
           /\ log' = log \o [i \in 1..Len(paths_to_delete) |-> "delete"]
    /\ gjob' = [gjob EXCEPT !.pc = After(UpdatePhases, "phase3")]
    /\ UNCHANGED <<head, updates>>

\* phases 4 and 5, lines 478-495
UpdateBuildImportsMap ==
    /\ gjob.kind = "update"
    /\ gjob.pc = "phase4"
    /\ gjob' = [gjob EXCEPT
                  !.imports_map = build_imports_map(graph, head,
                                      gjob.files_to_add \o gjob.files_to_modify),
                  !.pc = After(UpdatePhases, "phase4")]
    /\ log' = Append(log, "prescan")
    /\ UNCHANGED <<head, graph, updates>>

\* phase 6, lines 497-525
UpdateAddFiles ==
    /\ gjob.kind = "update"
    /\ gjob.pc = "phase6"
    /\ LET new_file_data_list == ParseAll(head, gjob.files_to_add \o gjob.files_to_modify)
       IN  /\ graph' = add_files(graph, new_file_data_list)
           /\ gjob' = [gjob EXCEPT !.new_file_data_list = new_file_data_list,
                                   !.pc = After(UpdatePhases, "phase6")]
           /\ log' = log \o [i \in 1..Len(new_file_data_list) |-> "write"]
    /\ UNCHANGED <<head, updates>>

\* phase 7, lines 527-537
UpdateRelink ==
    /\ gjob.kind = "update"
    /\ gjob.pc = "phase7"
    /\ graph' = rebuild_relationships(graph, gjob.new_file_data_list, gjob.imports_map)
    /\ log' = IF gjob.new_file_data_list = <<>> THEN log
              ELSE log \o <<"inherits", "calls">>
    /\ gjob' = [gjob EXCEPT !.pc = After(UpdatePhases, "phase7")]
    /\ UNCHANGED <<head, updates>>

\* phase 8, lines 539-571
UpdateDependents ==
    /\ gjob.kind = "update"
    /\ gjob.pc = "phase8"
    /\ graph' = rebuild_dependents(graph, head, gjob.dependent_files,
                                   gjob.affected_relative_paths, gjob.imports_map)
    /\ log' = IF dependent_paths(head, gjob.dependent_files,
                                 gjob.affected_relative_paths) = <<>>
              THEN log ELSE Append(log, "calls")
    /\ gjob' = [gjob EXCEPT !.pc = After(UpdatePhases, "phase8")]
    /\ UNCHANGED <<head, updates>>

\* ======================================================================
\* The scratch path, repeated ingestions and waiting pushes
\* ======================================================================
\* tempfile.gettempdir()/owner/repo: absent, a clone, or what a failed
\* git clone left; by: the job whose clone, fetch or reset made it
NoDir == [state |-> "absent", by |-> 0]

\* what one run of _sync_repository did: whether it found a cached clone,
\* how git fetch and git reset --hard ended, whether it ran the shallow clone
NoSync == [cached |-> FALSE, fetch |-> "skipped", reset |-> "skipped", fallback |-> FALSE]

IdleFs == [pc |-> "idle", kind |-> None, exit |-> None, sync |-> NoSync]

EmptyStore == [k \in {} |-> 0]

\* ---- the statements of one file write and of one file deletion
\* the files of the statement-level model and the directories above them
TxPaths == {"c.py", "pkg/a.py", "pkg/sub/b.py"}
REPOSITORY == "Repository"

\* Path(relative_path).parts[:-1] as the relative directory paths
path_parts(path) ==
    CASE path = "pkg/a.py"     -> <<"pkg">>
      [] path = "pkg/sub/b.py" -> <<"pkg", "pkg/sub">>
      [] OTHER                 -> <<>>

\* the directory paths in descending order (ORDER BY d.path DESC)
DirsDescending == <<"pkg/sub", "pkg">>

\* the database: File and Directory nodes, the files whose symbols are
\* written, CONTAINS edges <<parent, child>> between Repository, Directory
\* and File
EmptyDb == [files |-> {}, dirs |-> {}, symbols |-> {}, contains |-> {}]

NoTx == [op |-> None, path |-> None, todo |-> <<>>, failed |-> FALSE,
         db0 |-> EmptyDb, jobs |-> 0]

Statement(kind, node, parent) == [kind |-> kind, node |-> node, parent |-> parent]

\* add_file_to_graph lines 427-517: the session.run calls in their order
add_file_statements(path) ==
    LET parts == path_parts(path)
        parent == IF parts = <<>> THEN REPOSITORY ELSE parts[Len(parts)]
    IN  <<Statement("merge_file", path, None)>>
        \o [i \in 1..Len(parts) |->
               Statement("merge_directory", parts[i],
                         IF i = 1 THEN REPOSITORY ELSE parts[i - 1])]
        \o <<Statement("link_file", path, parent),
             Statement("merge_symbol", path, path)>>

\* MATCH (f:File)<-[:CONTAINS*]-(d:Directory) RETURN d.path ORDER BY d.path DESC
parent_paths(D, path) ==
    SelectSeq(DirsDescending, LAMBDA d :
        /\ d \in D.dirs
        /\ \/ <<d, path>> \in D.contains
           \/ \E m \in D.dirs : <<d, m>> \in D.contains /\ <<m, path>> \in D.contains)

\* _delete_file_nodes_and_relationships lines 220-248: the session.run calls
\* that write, in their order
delete_file_statements(D, path) ==
    <<Statement("delete_elements", path, None),
      Statement("delete_file", path, None)>>
    \o [i \in 1..Len(parent_paths(D, path)) |->
           Statement("cleanup_directory", parent_paths(D, path)[i], None)]

\* one session.run: an auto-commit transaction
Execute(D, st) ==
    LET parent_matches == st.parent = REPOSITORY \/ st.parent \in D.dirs
    IN  CASE st.kind = "merge_file" ->
               [D EXCEPT !.files = @ \cup {st.node}]
          [] st.kind = "merge_directory" ->
               IF parent_matches
               THEN [D EXCEPT !.dirs = @ \cup {st.node},
                              !.contains = @ \cup {<<st.parent, st.node>>}]
               ELSE D
          [] st.kind = "link_file" ->
               IF parent_matches /\ st.node \in D.files
               THEN [D EXCEPT !.contains = @ \cup {<<st.parent, st.node>>}]
               ELSE D
          [] st.kind = "merge_symbol" ->
               IF st.node \in D.files THEN [D EXCEPT !.symbols = @ \cup {st.node}]
               ELSE D
          [] st.kind = "delete_elements" ->
               [D EXCEPT !.symbols = @ \ {st.node}]
          [] st.kind = "delete_file" ->
               [D EXCEPT !.files = @ \ {st.node},
                         !.contains = {e \in @ : e[1] # st.node /\ e[2] # st.node}]
          [] OTHER ->
               \* cleanup_directory: WHERE NOT (d)-[:CONTAINS]->()
               IF st.node \in D.dirs /\ ~\E e \in D.contains : e[1] = st.node
               THEN [D EXCEPT !.dirs = @ \ {st.node},
                              !.contains = {e \in @ : e[2] # st.node}]
               ELSE D

\* add_file_to_graph is called for a file
TxBeginAdd(path) ==
    /\ tx.op = None
    /\ tx.jobs < MaxStatementJobs
    /\ path \in TxPaths
    /\ tx' = [op |-> "add", path |-> path, todo |-> add_file_statements(path),
              failed |-> FALSE, db0 |-> db, jobs |-> tx.jobs + 1]
    /\ UNCHANGED db

\* _delete_file_nodes_and_relationships is called for a file of the graph
TxBeginDelete(path) ==
    /\ tx.op = None
    /\ tx.jobs < MaxStatementJobs
    /\ path \in db.files
    /\ tx' = [op |-> "delete", path |-> path,
              todo |-> delete_file_statements(db, path),
              failed |-> FALSE, db0 |-> db, jobs |-> tx.jobs + 1]
    /\ UNCHANGED db

\* the next session.run commits
TxStatement ==
    /\ tx.op # None
    /\ tx.todo # <<>>
    /\ db' = Execute(db, Head(tx.todo))
    /\ tx' = [tx EXCEPT !.todo = Tail(@)]

\* the next session.run raises: the exception leaves the function, what the
\* earlier statements committed stays
TxFail ==
    /\ tx.op # None
    /\ tx.todo # <<>>
    /\ ~tx.failed
    /\ tx' = [tx EXCEPT !.todo = <<>>, !.failed = TRUE]
    /\ UNCHANGED db

\* the function returns or its exception is handled by the caller
TxEnd ==
    /\ tx.op # None
    /\ tx.todo = <<>>
    /\ tx' = [NoTx EXCEPT !.jobs = tx.jobs]
    /\ UNCHANGED db

AuxInit ==
    /\ ingests = 0
    /\ clone_dir = NoDir
    /\ fsjobs = [w \in WorkerIds |-> IdleFs]
    /\ pending = {}
    /\ store = EmptyStore
    /\ db = EmptyDb
    /\ tx = NoTx

\* ----------------------------------------------- the driver and its writes
max_retries == 3

\* Neo4jClient.run_query lines 102-124: up to max_retries attempts, a sleep
\* of 2 ** attempt seconds after each transient error but the last
run_query(failures) ==
    LET attempts == IF failures < max_retries THEN failures + 1 ELSE max_retries
    IN  [via |-> "run_query", failures |-> failures, attempts |-> attempts,
         waits |-> [attempt \in 1..(attempts - 1) |-> 2 ^ (attempt - 1)],
         ok |-> failures < max_retries]

\* session.run on self.driver.session(): one auto-commit attempt
session_run(failures) ==
    [via |-> "session.run", failures |-> failures, attempts |-> 1,
     waits |-> <<>>, ok |-> failures = 0]

\* a node or edge tuple of the database
Tuple(kind, label, name, path) ==
    [kind |-> kind, label |-> label, name |-> name, path |-> path]

\* the tuples of the nodes of G and of their CONTAINS edges
ingest_tuples(G) ==
    (IF G.repo_node THEN {Tuple("node", "Repository", "", "")} ELSE {})
    \cup {Tuple("node", "File", "", p) : p \in G.files}
    \cup {Tuple("CONTAINS", "File", "", p) : p \in G.files}
    \cup {Tuple("node", s.label, s.name, s.path) : s \in G.symbols}
    \cup {Tuple("CONTAINS", s.label, s.name, s.path) : s \in G.symbols}

\* CREATE in place of MERGE: one more copy of every tuple written
MERGE_as_create(S, tuples) ==
    [k \in DOMAIN S \cup tuples |->
        (IF k \in DOMAIN S THEN S[k] ELSE 0) + (IF k \in tuples THEN 1 ELSE 0)]

\* Cypher MERGE by key: match the tuple, create it when there is none
MERGE(S, tuples) ==
    [k \in DOMAIN S \cup tuples |-> IF k \in DOMAIN S THEN S[k] ELSE 1]

\* Cypher DETACH DELETE of the tuples matched
DETACH_DELETE(S, tuples) == [k \in DOMAIN S \ tuples |-> S[k]]

\* the properties the Repository node carries: add_repository_to_graph
\* (MERGE on repo; SET owner, name, is_dependency) and
\* _link_user_to_repository (SET url, path)
RepositoryProperties == {"repo", "owner", "name", "is_dependency", "url", "path"}

\* MATCH (r:Repository {<property>: ...})
MatchRepository(G, property) == G.repo_node /\ property \in RepositoryProperties

\* CodeGraphSchema.clear_repository: MATCH on id, everything reachable and r
clear_repository(G) == IF MatchRepository(G, "id") THEN EmptyGraph ELSE G

\* CodeQueryService.delete_repository: MATCH on id, DETACH DELETE r
delete_repository(G) ==
    IF MatchRepository(G, "id") THEN [G EXCEPT !.repo_node = FALSE] ELSE G

\* ------------------------------------------------- the engine, step by step
\* ingest_github_repository lines 86-112: the access check, then
\* clear_repository when clear_existing; an exception here leaves the engine
\* and handle_ingestion_task writes FAILED
EngineStart(clear_existing, no_access, failures) ==
    /\ JobFree
    /\ ingests < MaxIngests
    /\ clear_existing \/ failures = 0
    /\ ingests' = ingests + 1
    /\ LET w == IF clear_existing /\ ~no_access THEN run_query(failures) ELSE NoWrite
           job == [NoJob(head) EXCEPT !.kind = "ingest", !.status = RUNNING,
                                      !.clear_existing = clear_existing,
                                      !.graph0 = graph, !.last_write = w]
       IN  IF no_access \/ ~w.ok
           THEN /\ gjob' = [job EXCEPT
                              !.pc = "done",
                              !.fault = IF no_access THEN "no_access" ELSE "graph_failed",
                              !.status = FAILED]
                /\ UNCHANGED <<graph, store>>
           ELSE /\ gjob' = [job EXCEPT !.pc = "clone"]
                /\ graph' = IF clear_existing THEN clear_repository(graph) ELSE graph
                /\ store' = IF clear_existing
                            THEN DETACH_DELETE(store, ingest_tuples(graph)
                                                  \ ingest_tuples(clear_repository(graph)))
                            ELSE store
    /\ log' = <<>>
    /\ UNCHANGED <<head, updates>>

\* ingest_github_repository lines 116-121 and 193-194, then
\* build_project_graph lines 289-299: the clone, the Repository node, the
\* list of source files
EngineClone(fault) ==
    /\ gjob.kind = "ingest"
    /\ gjob.pc = "clone"
    /\ fault \in {"none", "clone_failed"}
    /\ IF fault = "clone_failed"
       THEN /\ gjob' = [gjob EXCEPT
                          !.pc = "done", !.fault = fault,
                          !.status = IF ingest_github_repository(fault) = "raise"
                                     THEN FAILED ELSE COMPLETED]
            /\ UNCHANGED <<graph, store, log>>
       ELSE /\ graph' = add_repository_to_graph(graph)
            /\ store' = MERGE(store, ingest_tuples(add_repository_to_graph(EmptyGraph)))
            /\ gjob' = [gjob EXCEPT
                          !.pc = After(IngestPhases, "repository"),
                          !.files = SeqOfPaths({p \in Paths : head[p] # Absent})]
            /\ log' = <<"repository">>
    /\ UNCHANGED <<head, updates, ingests>>

\* build_project_graph lines 314-337, one file of the loop. parse_file
\* returns {path, error} when the parser raises: the file is counted as
\* skipped. add_file_to_graph writes through session.run; its exception is
\* caught, appended to errors and the file is skipped.
EngineFile(parse_error, failures) ==
    /\ gjob.kind = "ingest"
    /\ gjob.pc = "files"
    /\ gjob.files # <<>>
    /\ parse_error => failures = 0
    /\ LET path == Head(gjob.files)
           w == IF parse_error THEN gjob.last_write ELSE session_run(failures)
           file_data == parse_file(head, path)
       IN  /\ gjob' = [gjob EXCEPT
                         !.files = Tail(@), !.last_write = w,
                         !.errors = @ \/ ~w.ok \/ parse_error,
                         !.parse_failed = IF parse_error THEN @ \cup {path} ELSE @,
                         !.stats_errors = IF ~parse_error /\ ~w.ok
                                          THEN @ \cup {path} ELSE @]
           /\ IF ~parse_error /\ w.ok
              THEN /\ graph' = add_file_to_graph(graph, file_data)
                   /\ store' = MERGE(store,
                                  ingest_tuples(add_file_to_graph(EmptyGraph, file_data)))
                   /\ log' = Append(log, "write")
              ELSE UNCHANGED <<graph, store, log>>
    /\ UNCHANGED <<head, updates, ingests>>

\* DELETE /api/v1/repos/{repo_id}: query_service.delete_repository
DeleteRepository ==
    /\ JobFree
    /\ gjob.kind # "delete"
    /\ graph' = delete_repository(graph)
    /\ store' = DETACH_DELETE(store, ingest_tuples(graph)
                                  \ ingest_tuples(delete_repository(graph)))
    /\ gjob' = [NoJob(head) EXCEPT !.kind = "delete", !.pc = "done",
                                   !.graph0 = graph]
    /\ UNCHANGED <<head, log, updates, ingests>>

\* ======================================================================
\* The specifications
\* ======================================================================
Init ==
    /\ JobInit
    /\ AuxInit
    /\ head = [p \in Paths |-> Absent]
    /\ graph = EmptyGraph
    /\ gjob = NoJob(head)
    /\ log = <<>>
    /\ updates = 0

Next ==
    \/ \E q \in ReqIds, r \in Repos : ApiFindActive(q, r) /\ UNCHANGED <<graphVars, auxVars>>
    \/ \E q \in ReqIds, d \in {"ok", "none", "raise"} :
          ApiCreateJob(q, d) /\ UNCHANGED <<graphVars, auxVars>>
    \/ \E q \in ReqIds : ApiMarkDispatched(q) /\ UNCHANGED <<graphVars, auxVars>>
    \/ \E path \in IncrementalPaths \cup {TASKS_INGEST}, j \in ExternalJobIds, r \in Repos :
          PostTask(path, j, r) /\ UNCHANGED <<graphVars, auxVars>>
    \/ \E h \in HandlerIds, t \in queue : Deliver(h, t) /\ UNCHANGED <<graphVars, auxVars>>
    \/ \E h \in HandlerIds, tf \in BOOLEAN : HandlerStart(h, tf) /\ UNCHANGED <<graphVars, auxVars>>
    \/ \E h \in HandlerIds, fault \in IngestFaults \cup IncrementalFaults, tf \in BOOLEAN :
          HandlerFinish(h, fault, tf) /\ UNCHANGED <<graphVars, auxVars>>
    \/ \E h \in HandlerIds, tf \in BOOLEAN : HandlerExcept(h, tf) /\ UNCHANGED <<graphVars, auxVars>>

\* the ingest endpoint, the task queue and the worker handlers
Spec == Init /\ [][Next]_vars

\* The scheduling of Spec: the API request goes on to its next statement, the
\* queue delivers a task it holds to a free worker, and a worker handler that
\* has started runs to its end.
ApiProceeds == \E q \in ReqIds : ApiMarkDispatched(q) /\ UNCHANGED <<graphVars, auxVars>>

QueueDelivers ==
    \E h \in HandlerIds, t \in queue : Deliver(h, t) /\ UNCHANGED <<graphVars, auxVars>>

HandlerRuns ==
    \/ \E h \in HandlerIds, tf \in BOOLEAN : HandlerStart(h, tf) /\ UNCHANGED <<graphVars, auxVars>>
    \/ \E h \in HandlerIds, fault \in IngestFaults \cup IncrementalFaults, tf \in BOOLEAN :
          HandlerFinish(h, fault, tf) /\ UNCHANGED <<graphVars, auxVars>>
    \/ \E h \in HandlerIds, tf \in BOOLEAN : HandlerExcept(h, tf) /\ UNCHANGED <<graphVars, auxVars>>

FairSpec ==
    /\ Init /\ [][Next]_vars
    /\ WF_vars(ApiProceeds)
    /\ WF_vars(QueueDelivers)
    /\ WF_vars(HandlerRuns)

\* The webhook tasks share no state with the tracker and the queue: they are
\* checked next to the worker handlers alone, and so is the dispatch deadline.
NextHooks ==
    \/ \E b \in BgIds, r \in Repos, d \in Deliveries : OnPush(b, r, d) /\ UNCHANGED <<graphVars, auxVars>>
    \/ \E b \in BgIds, r \in Repos, d \in Deliveries : OnComment(b, r, d) /\ UNCHANGED <<graphVars, auxVars>>
    \/ \E b \in BgIds : BackgroundDone(b) /\ UNCHANGED <<graphVars, auxVars>>
    \/ \E h \in HandlerIds : DeadlineExceeded(h) /\ UNCHANGED <<graphVars, auxVars>>
    \/ \E path \in IncrementalPaths \cup {TASKS_INGEST}, j \in ExternalJobIds, r \in Repos :
          PostTask(path, j, r) /\ UNCHANGED <<graphVars, auxVars>>
    \/ \E h \in HandlerIds, t \in queue : Deliver(h, t) /\ UNCHANGED <<graphVars, auxVars>>
    \/ \E h \in HandlerIds, tf \in BOOLEAN : HandlerStart(h, tf) /\ UNCHANGED <<graphVars, auxVars>>
    \/ \E h \in HandlerIds, fault \in IngestFaults \cup IncrementalFaults, tf \in BOOLEAN :
          HandlerFinish(h, fault, tf) /\ UNCHANGED <<graphVars, auxVars>>
    \/ \E h \in HandlerIds, tf \in BOOLEAN : HandlerExcept(h, tf) /\ UNCHANGED <<graphVars, auxVars>>

\* the webhook endpoints and their background tasks alone
\* the repositories the GitHub App sends deliveries for
HookRepos == Repos \cup {"acme/lib"}

NextWebhook ==
    \/ \E b \in BgIds, r \in HookRepos, d \in Deliveries : OnPush(b, r, d) /\ UNCHANGED <<graphVars, auxVars>>
    \/ \E b \in BgIds, r \in HookRepos, d \in Deliveries : OnComment(b, r, d) /\ UNCHANGED <<graphVars, auxVars>>
    \/ \E b \in BgIds : BackgroundDone(b) /\ UNCHANGED <<graphVars, auxVars>>

SpecWebhook == Init /\ [][NextWebhook]_vars

\* the webhooks, their background tasks, the worker handlers and the
\* dispatch deadline
SpecHooks == Init /\ [][NextHooks]_vars

InitGraph == JobInit /\ GraphInit /\ AuxInit

NextGraph ==
    \/ IngestStart /\ UNCHANGED <<jobVars, auxVars>>
    \/ IngestPreScan /\ UNCHANGED <<jobVars, auxVars>>
    \/ IngestFile /\ UNCHANGED <<jobVars, auxVars>>
    \/ IngestFinish /\ UNCHANGED <<jobVars, auxVars>>
    \/ \E D \in Diffs(head) : Push(D) /\ UNCHANGED <<jobVars, auxVars>>
    \/ UpdateCheckRepository /\ UNCHANGED <<jobVars, auxVars>>
    \/ UpdateClassify /\ UNCHANGED <<jobVars, auxVars>>
    \/ UpdateDeleteStale /\ UNCHANGED <<jobVars, auxVars>>
    \/ UpdateBuildImportsMap /\ UNCHANGED <<jobVars, auxVars>>
    \/ UpdateAddFiles /\ UNCHANGED <<jobVars, auxVars>>
    \/ UpdateRelink /\ UNCHANGED <<jobVars, auxVars>>
    \/ UpdateDependents /\ UNCHANGED <<jobVars, auxVars>>

\* ------------------------------------------------ jobs on the scratch path
\* a worker takes a job on the repository: a full ingestion or an update
FsStart(w, kind) ==
    /\ fsjobs[w].pc = "idle"
    /\ kind \in {"ingest", "update"}
    /\ fsjobs' = [fsjobs EXCEPT ![w] = [IdleFs EXCEPT !.pc = "prepare", !.kind = kind]]
    /\ UNCHANGED clone_dir

\* what git clone can leave behind: the clone, nothing, or (non-zero exit
\* after the directory was filled, "Clone succeeded, but checkout failed")
\* the directory
CloneOutcomes == {"cloned", "failed_clean", "failed_left"}

\* GitHubClient.clone_repository lines 169-213: rmtree of the path when it
\* exists, git clone; ingest_github_repository lines 193-194 re-raises
CloneRepository(w, outcome) ==
    /\ fsjobs[w].pc = "prepare"
    /\ fsjobs[w].kind = "ingest"
    /\ outcome \in CloneOutcomes
    /\ clone_dir' = CASE outcome = "cloned"      -> [state |-> "clone", by |-> w]
                      [] outcome = "failed_left" -> [state |-> "partial", by |-> w]
                      [] OTHER                   -> NoDir
    /\ fsjobs' = [fsjobs EXCEPT
                    ![w].pc = IF outcome = "cloned" THEN "using" ELSE "done",
                    ![w].exit = IF outcome = "cloned" THEN None ELSE "clone_failed"]

\* how a git subprocess can end: exit 0, another exit code, TimeoutExpired
StepOutcomes == {"ok", "failed", "timeout"}

\* IncrementalGraphUpdater._sync_repository._do_sync lines 76-171: with a
\* cached clone, git fetch (a failure is only logged), git reset --hard and,
\* when the reset fails, git pull --force; the shallow clone when there is no
\* cached clone, when a step timed out or when the last result is a failure
_do_sync(cached, fetch, reset, pull, clone) ==
    LET in_place ==
            CASE ~cached           -> "none"
              [] fetch = "timeout" -> "timeout"
              [] reset = "ok"      -> "ok"
              [] reset = "timeout" -> "timeout"
              [] OTHER             -> pull
        fallback == in_place # "ok"
    IN  [success |-> IF fallback THEN clone = "ok" ELSE TRUE,
         sync |-> [cached |-> cached,
                   fetch |-> IF cached THEN fetch ELSE "skipped",
                   reset |-> IF cached /\ fetch # "timeout" THEN reset ELSE "skipped",
                   fallback |-> fallback]]

\* update_graph_incrementally lines 387-396 with _sync_repository
SyncRepository(w, fetch, reset, pull, clone) ==
    /\ fsjobs[w].pc = "prepare"
    /\ fsjobs[w].kind = "update"
    /\ LET result == _do_sync(clone_dir.state # "absent", fetch, reset, pull, clone)
       IN  /\ clone_dir' = IF result.success THEN [state |-> "clone", by |-> w]
                           ELSE NoDir
           /\ fsjobs' = [fsjobs EXCEPT
                           ![w].pc = IF result.success THEN "using" ELSE "done",
                           ![w].exit = IF result.success THEN None ELSE "sync_failed",
                           ![w].sync = result.sync]

\* ingest_github_repository lines 133-191: build_project_graph reads the
\* clone; rmtree(clone_path) on success (161-163) and in the except (188-189)
BuildGraph(w, ok) ==
    /\ fsjobs[w].pc = "using"
    /\ fsjobs[w].kind = "ingest"
    /\ clone_dir' = NoDir
    /\ fsjobs' = [fsjobs EXCEPT
                    ![w].pc = "done",
                    ![w].exit = IF ok THEN "completed" ELSE "graph_failed"]

\* update_graph_incrementally phases 1-8: the files are parsed from the
\* synced directory, which is kept for the next update
UpdateGraph(w) ==
    /\ fsjobs[w].pc = "using"
    /\ fsjobs[w].kind = "update"
    /\ fsjobs' = [fsjobs EXCEPT ![w].pc = "done", ![w].exit = "completed"]
    /\ UNCHANGED clone_dir

\* the worker is free for its next task
FsReturn(w) ==
    /\ fsjobs[w].pc = "done"
    /\ fsjobs' = [fsjobs EXCEPT ![w] = IdleFs]
    /\ UNCHANGED clone_dir

\* ------------------------------------------- pushes waiting for their update
\* on_push enqueues the delivery; handleDirectPush lines 676-690 reads its
\* change records from compare(before, after). The push has moved HEAD.
\* The pushes arrive after the ingestion and before the first update runs.
PushArrives(D) ==
    /\ gjob.kind = "ingest"
    /\ gjob.pc = "done"
    /\ updates < MaxUpdates
    /\ Cardinality(pending) < MaxPending
    /\ D \in Diffs(head)
    /\ head' = Apply(head, D)
    /\ updates' = updates + 1
    /\ pending' = pending \cup {[delivery |-> updates + 1,
                                  changed_files |-> ChangedFiles(D)]}
    /\ UNCHANGED <<graph, gjob, log>>

\* handle_incremental_push for one of the waiting deliveries, whichever the
\* queue hands over; update_graph_incrementally syncs the working tree to
\* the remote's HEAD (lines 387-391)
UpdateTake(rec) ==
    /\ JobFree
    /\ rec \in pending
    /\ pending' = pending \ {rec}
    /\ gjob' = [NoJob(head) EXCEPT
                  !.kind = "update",
                  !.pc = "phase0",
                  !.changed_files = rec.changed_files,
                  !.graph0 = graph]
    /\ log' = <<>>
    /\ UNCHANGED <<head, graph, updates>>

\* what the ingestion and the phases of an update leave alone
pushFrame == <<jobVars, ingests, clone_dir, fsjobs, pending, store, db, tx>>

NextPushes ==
    \/ IngestStart /\ UNCHANGED pushFrame
    \/ IngestPreScan /\ UNCHANGED pushFrame
    \/ IngestFile /\ UNCHANGED pushFrame
    \/ IngestFinish /\ UNCHANGED pushFrame
    \/ \E D \in Diffs(head) :
           PushArrives(D) /\ UNCHANGED <<jobVars, ingests, clone_dir, fsjobs, store, db, tx>>
    \/ \E rec \in pending :
           UpdateTake(rec) /\ UNCHANGED <<jobVars, ingests, clone_dir, fsjobs, store, db, tx>>
    \/ UpdateCheckRepository /\ UNCHANGED pushFrame
    \/ UpdateClassify /\ UNCHANGED pushFrame
    \/ UpdateDeleteStale /\ UNCHANGED pushFrame
    \/ UpdateBuildImportsMap /\ UNCHANGED pushFrame
    \/ UpdateAddFiles /\ UNCHANGED pushFrame
    \/ UpdateRelink /\ UNCHANGED pushFrame
    \/ UpdateDependents /\ UNCHANGED pushFrame

InitPushes ==
    /\ JobInit
    /\ AuxInit
    /\ head \in {tree \in Trees :
                    Cardinality({p \in Paths : tree[p] # Absent}) <= MaxInitialFiles}
    /\ graph = EmptyGraph
    /\ gjob = NoJob(head)
    /\ log = <<>>
    /\ updates = 0

SpecPushes == InitPushes /\ [][NextPushes]_vars

\* the ingestion, then pushes and merged pull requests, one update at a time
NextMerge ==
    \/ IngestStart /\ UNCHANGED pushFrame
    \/ IngestPreScan /\ UNCHANGED pushFrame
    \/ IngestFile /\ UNCHANGED pushFrame
    \/ IngestFinish /\ UNCHANGED pushFrame
    \/ \E D \in Diffs(head) : Push(D) /\ UNCHANGED pushFrame
    \/ \E D \in Diffs(head) : MergePR(D) /\ UNCHANGED pushFrame
    \/ UpdateCheckRepository /\ UNCHANGED pushFrame
    \/ UpdateClassify /\ UNCHANGED pushFrame
    \/ UpdateDeleteStale /\ UNCHANGED pushFrame
    \/ UpdateBuildImportsMap /\ UNCHANGED pushFrame
    \/ UpdateAddFiles /\ UNCHANGED pushFrame
    \/ UpdateRelink /\ UNCHANGED pushFrame
    \/ UpdateDependents /\ UNCHANGED pushFrame

SpecMerge == InitPushes /\ [][NextMerge]_vars

\* what the jobs on the scratch path leave alone
scratchFrame == <<jobVars, graphVars, ingests, pending, store, db, tx>>

InitScratch ==
    /\ JobInit
    /\ AuxInit
    /\ head = [p \in Paths |-> Absent]
    /\ graph = EmptyGraph
    /\ gjob = NoJob(head)
    /\ log = <<>>
    /\ updates = 0

NextScratch ==
    \/ \E w \in WorkerIds, kind \in {"ingest", "update"} :
           FsStart(w, kind) /\ UNCHANGED scratchFrame
    \/ \E w \in WorkerIds, outcome \in CloneOutcomes :
           CloneRepository(w, outcome) /\ UNCHANGED scratchFrame
    \/ \E w \in WorkerIds, fetch, reset, pull, clone \in StepOutcomes :
           SyncRepository(w, fetch, reset, pull, clone) /\ UNCHANGED scratchFrame
    \/ \E w \in WorkerIds, ok \in BOOLEAN :
           BuildGraph(w, ok) /\ UNCHANGED scratchFrame
    \/ \E w \in WorkerIds : UpdateGraph(w) /\ UNCHANGED scratchFrame
    \/ \E w \in WorkerIds : FsReturn(w) /\ UNCHANGED scratchFrame

SpecScratch == InitScratch /\ [][NextScratch]_vars

\* what the statements of a file write or deletion leave alone
txFrame == <<jobVars, graphVars, ingests, clone_dir, fsjobs, pending, store>>

NextTx ==
    \/ \E path \in TxPaths : TxBeginAdd(path) /\ UNCHANGED txFrame
    \/ \E path \in TxPaths : TxBeginDelete(path) /\ UNCHANGED txFrame
    \/ TxStatement /\ UNCHANGED txFrame
    \/ TxFail /\ UNCHANGED txFrame
    \/ TxEnd /\ UNCHANGED txFrame

SpecTx == InitScratch /\ [][NextTx]_vars


NextIngest ==
    \/ \E clear_existing, no_access \in BOOLEAN, failures \in 0..MaxTransient :
           EngineStart(clear_existing, no_access, failures)
           /\ UNCHANGED <<jobVars, clone_dir, fsjobs, pending, db, tx>>
    \/ \E fault \in {"none", "clone_failed"} :
           EngineClone(fault) /\ UNCHANGED <<jobVars, clone_dir, fsjobs, pending, db, tx>>
    \/ IngestPreScan /\ UNCHANGED <<jobVars, auxVars>>
    \/ \E parse_error \in BOOLEAN, failures \in 0..MaxTransient :
           EngineFile(parse_error, failures)
           /\ UNCHANGED <<jobVars, clone_dir, fsjobs, pending, db, tx>>
    \/ IngestFinish /\ UNCHANGED <<jobVars, auxVars>>
    \/ DeleteRepository /\ UNCHANGED <<jobVars, clone_dir, fsjobs, pending, db, tx>>

SpecIngest == InitGraph /\ [][NextIngest]_vars

SpecGraph == InitGraph /\ [][NextGraph]_vars

\* ======================================================================
\* Properties
\* ======================================================================
Terminal == {COMPLETED, FAILED}

\* C1: at every moment at most one job record of a repository is in an
\* active status, and a request answered with an existing job names a job of
\* its repository and creates nothing.
C1_OneActiveJobPerRepo ==
    /\ \A r \in Repos : Cardinality(find_active_job(tracker, r)) <= 1
    /\ \A q \in ReqIds :
          (requests[q].pc = "done" /\ ~requests[q].created) =>
              /\ requests[q].code = 200
              /\ tracker[requests[q].job_id].repo = requests[q].repo

\* C2: at any moment at most one job writes to a repository's subgraph, and
\* nothing writes to it outside a job.
C2_OneWriterInsideAJob ==
    \A r \in Repos :
        /\ Cardinality(HandlerWriters(r)) + Cardinality(BackgroundWriters(r)) <= 1
        /\ BackgroundWriters(r) = {}

\* C3: a payload delivered for a job whose record is COMPLETED or FAILED is
\* answered at once: the handler ends without running the job and leaves
\* the record's status as it was.
C3_TerminalJobShortCircuits ==
    [][\A h \in HandlerIds :
          (/\ handlers[h].pc = "received"
           /\ handlers'[h].pc # "received"
           /\ tracker[handlers[h].job_id].status \in Terminal)
          => /\ handlers'[h].pc = "done"
             /\ tracker'[handlers[h].job_id].status = tracker[handlers[h].job_id].status]_vars

\* C4: every invocation of a worker endpoint is answered with 200.
C4_WorkerAlwaysAnswers200 ==
    \A h \in HandlerIds : handlers[h].pc = "done" => handlers[h].code = 200

\* C5: a full-ingestion job that hit a pass-wide failure ends FAILED and is
\* never set to COMPLETED.
C5_PassWideFailureFailsJob ==
    \A h \in HandlerIds :
        (/\ handlers[h].path = TASKS_INGEST
         /\ handlers[h].fault \in PassWideFaults)
        => /\ handlers[h].wrote # COMPLETED
           /\ (handlers[h].code = 200 => handlers[h].wrote = FAILED)

\* ---- the graph a repository's sources stand for
AllFileData(tree) == ParseAll(tree, PathOrder)

\* the File and symbol nodes of every file, no deferred edge
NodesOnly(tree) ==
    add_files(add_repository_to_graph(EmptyGraph), AllFileData(tree))

\* the nodes, then pass C and pass D over all files with the pre-scan's map
WithDeferredEdges(tree) ==
    LET imports_map == _pre_scan_for_imports(tree,
                           SeqOfPaths({p \in Paths : tree[p] # Absent}))
    IN  _create_all_function_calls(
            _create_all_inheritance_links(NodesOnly(tree), AllFileData(tree), imports_map),
            AllFileData(tree), imports_map)

OutCalls(G, F) == {e \in G.calls : e.caller_path = F}
OutInherits(G, F) == {e \in G.inherits : e.child_path = F}

\* the paths a diff changes, and the files with an edge into them beforehand
ChangedPaths ==
    UNION {{gjob.changed_files[i].filename} \cup
           (IF gjob.changed_files[i].previous_filename # None
            THEN {gjob.changed_files[i].previous_filename} ELSE {}) :
           i \in 1..Len(gjob.changed_files)}

HadEdgeInto(G, changed) ==
    {e.caller_path : e \in {x \in G.calls : x.called_path \in changed}}
    \cup {e.child_path : e \in {x \in G.inherits : x.parent_path \in changed}}

UpdateFinished == gjob.kind = "update" /\ gjob.pc = "done" /\ graph.repo_node

\* C6: when a full ingestion is COMPLETED the graph holds the INHERITS and
\* CALLS edges of the repository (passes C and D ran over all parsed files).
C6_IngestRunsDeferredPasses ==
    (gjob.kind = "ingest" /\ gjob.status = COMPLETED) =>
        /\ graph.calls = WithDeferredEdges(head).calls
        /\ graph.inherits = WithDeferredEdges(head).inherits

C8_AffectedEdgesReflectSource ==
    UpdateFinished =>
        \A F \in ChangedPaths \cup HadEdgeInto(gjob.graph0, ChangedPaths) :
            /\ OutCalls(graph, F) = OutCalls(WithDeferredEdges(head), F)
            /\ OutInherits(graph, F) = OutInherits(WithDeferredEdges(head), F)

\* C9: an incremental update leaves every CALLS and INHERITS edge alone whose
\* source file is neither changed nor had an edge into a changed file.
C9_FrameEdgesUntouched ==
    gjob.kind = "update" =>
        LET touchable == ChangedPaths \cup HadEdgeInto(gjob.graph0, ChangedPaths)
        IN  /\ {e \in graph.calls : e.caller_path \notin touchable}
               = {e \in gjob.graph0.calls : e.caller_path \notin touchable}
            /\ {e \in graph.inherits : e.child_path \notin touchable}
               = {e \in gjob.graph0.inherits : e.child_path \notin touchable}

C9_Witness ==
    /\ UpdateFinished
    /\ graph # gjob.graph0
    /\ LET touchable == ChangedPaths \cup HadEdgeInto(gjob.graph0, ChangedPaths)
       IN  \E e \in gjob.graph0.calls : e.caller_path \notin touchable

\* C10: a full ingest of R followed by the incremental update for D leaves
\* the nodes and edges a full ingest of R with D applied produces.
C10_IncrementalEqualsRebuild ==
    (UpdateFinished /\ gjob.graph0 = NodesOnly(gjob.head0)) =>
        graph = NodesOnly(head)

\* ---- deleted files
\* no Symbol of path p and no CALLS or INHERITS edge into or out of p
NothingOf(G, p) ==
    /\ p \notin G.files
    /\ \A sym \in G.symbols : sym.path # p
    /\ \A e \in G.calls : e.caller_path # p /\ e.called_path # p
    /\ \A e \in G.inherits : e.child_path # p /\ e.parent_path # p

UnresolvedSymbol == "UnresolvedSymbol"

\* no file of the tree defines the name
NoDefinition(tree, name) ==
    \A p \in Paths :
        tree[p] # Absent => name \notin local_names(parse_file(tree, p))

\* C14: a call whose name has no definition in the repository gets a CALLS
\* edge to an UnresolvedSymbol placeholder of that name and no edge to a
\* real Symbol.
C14_UnresolvedCallsGetPlaceholder ==
    UpdateFinished =>
        \A i \in 1..Len(gjob.new_file_data_list) :
            \A call \in gjob.new_file_data_list[i].function_calls :
                NoDefinition(head, call.name) =>
                    /\ \E e \in graph.calls :
                          /\ e.caller_path = gjob.new_file_data_list[i].path
                          /\ e.called = call.name
                          /\ e.called_path = UnresolvedSymbol
                    /\ \A e \in graph.calls :
                          (/\ e.caller_path = gjob.new_file_data_list[i].path
                           /\ e.called = call.name)
                          => e.called_path = UnresolvedSymbol

\* C11: ingesting the same unchanged repository a second time with
\* clear_existing = false, on top of the graph of a single ingest, leaves
\* exactly the tuples of a single ingest, one copy of each: no duplicate node
\* and no duplicate edge.
C11_ReingestIsIdempotent ==
    ( /\ gjob.kind = "ingest"
      /\ gjob.pc = "done"
      /\ gjob.status = COMPLETED
      /\ ~gjob.errors
      /\ ~gjob.clear_existing
      /\ gjob.graph0 = NodesOnly(head) )
    => /\ graph = NodesOnly(head)
       /\ store = MERGE(EmptyStore, ingest_tuples(NodesOnly(head)))
       /\ \A k \in DOMAIN store : store[k] = 1

C11_Witness ==
    /\ ingests = 2
    /\ gjob.kind = "ingest"
    /\ gjob.pc = "done"
    /\ gjob.status = COMPLETED
    /\ ~gjob.errors
    /\ ~gjob.clear_existing
    /\ gjob.graph0 = NodesOnly(head)
    /\ graph.symbols # {}
    /\ log # <<>>

\* C13: after delete_repository, through the repository-delete endpoint or
\* through an ingest with clear_existing = true, no node of the repository
\* remains in the graph under any label.
C13_DeleteRepositoryLeavesNothing ==
    ( \/ gjob.kind = "delete" /\ gjob.pc = "done"
      \/ gjob.kind = "ingest" /\ gjob.clear_existing /\ gjob.pc = "clone" )
    => /\ ingest_tuples(graph) = {}
       /\ DOMAIN store = {}

\* C16: a cloning failure is fatal for the ingestion job: its record ends
\* FAILED and no file of the job is parsed or written to the graph.
C16_CloneFailureIsFatal ==
    (gjob.kind = "ingest" /\ gjob.fault = "clone_failed")
    => /\ gjob.pc = "done"
       /\ gjob.status = FAILED
       /\ log = <<>>
       /\ graph.files \subseteq gjob.graph0.files
       /\ graph.symbols \subseteq gjob.graph0.symbols

C16_Witness ==
    /\ gjob.kind = "ingest"
    /\ gjob.fault = "clone_failed"
    /\ gjob.pc = "done"
    /\ \E p \in Paths : head[p] # Absent

\* C17: every graph write of ingestion that meets a transient driver error
\* is retried with exponential backoff from 1 s, 3 attempts at most, and the
\* error propagates after the third.
C17_WritesRetryTransientErrors ==
    LET w == gjob.last_write
        attempts == IF w.failures < 3 THEN w.failures + 1 ELSE 3
    IN  w.failures >= 1 =>
            /\ w.attempts = attempts
            /\ w.waits = SubSeq(<<1, 2>>, 1, attempts - 1)
            /\ w.ok <=> (w.failures < 3)

\* C18: the scratch clone directory of an ingestion job is removed on every
\* exit path of the job, a failure of the clone included: nothing the job
\* put at the path is left when the job is over.
C18_ScratchReleasedOnEveryExit ==
    \A w \in WorkerIds :
        (fsjobs[w].kind = "ingest" /\ fsjobs[w].pc = "done")
        => ~(clone_dir.state # "absent" /\ clone_dir.by = w)

\* C19: while a job is using the scratch path it is the job's own: no other
\* job has deleted, re-cloned or reset it.
C19_ScratchPathIsExclusive ==
    \A w \in WorkerIds :
        fsjobs[w].pc = "using" => clone_dir = [state |-> "clone", by |-> w]

\* C20: when the updates of all the pushes that arrived have been processed,
\* in whichever order, the graph holds the files and symbols of the
\* repository's final HEAD.
C20_AnyOrderReachesFinalHead ==
    (gjob.kind = "update" /\ gjob.pc = "done" /\ pending = {}) =>
        /\ graph.files = NodesOnly(head).files
        /\ graph.symbols = NodesOnly(head).symbols

\* C21: a webhook delivery starts background work only if it is a push with
\* before_sha and after_sha both non-zero, a pull_request closed with
\* merged = true, or an issue_comment created on a pull request; any other
\* delivery is ignored and starts nothing.
C21_OnlyAcceptedDeliveriesStartWork ==
    \A b \in BgIds :
        LET d == background[b].delivery
            accepted ==
                \/ d.event = "push" /\ d.before # ZERO_SHA /\ d.after # ZERO_SHA
                \/ d.event = "pull_request" /\ d.action = "closed" /\ d.merged
                \/ d.event = "issue_comment" /\ d.action = "created" /\ d.on_pull_request
        IN  /\ background[b].pc = "running" => accepted
            /\ (background[b].pc \in {"running", "ignored"} /\ ~accepted)
                   => background[b].pc = "ignored" /\ background[b].kind = None

C21_Witness ==
    \E b \in BgIds :
        /\ background[b].pc = "running"
        /\ background[b].delivery.event = "push"
        /\ background[b].kind = "push"

\* C22: for every renamed change record, on the push path and on the
\* PR-merge path, the finished update has removed the File at the previous
\* path from the graph and added the File at the new path.
C22_RenameMovesTheFile ==
    UpdateFinished =>
        \A rec \in gjob.renamed :
            /\ rec.previous_filename \notin graph.files
            /\ rec.filename \in graph.files

\* C23: whenever a step of syncing the cached clone (git fetch, git reset
\* --hard) fails or times out, the updater runs the fresh shallow clone
\* before it goes on to classify the changed files.
C23_SyncFailureFallsBackToClone ==
    \A w \in WorkerIds :
        LET sync == fsjobs[w].sync
        IN  ( /\ fsjobs[w].kind = "update"
              /\ sync.cached
              /\ \/ sync.fetch \in {"failed", "timeout"}
                 \/ sync.reset \in {"failed", "timeout"} )
            => sync.fallback

\* C24: when parsing one file fails during a job, the job goes on with the
\* remaining files, the error of the file is recorded in the job's errors[]
\* and the job writes no File or Symbol node for that file.
C24_ParseErrorIsRecordedAndSkipped ==
    gjob.kind = "ingest" =>
        \A p \in gjob.parse_failed :
            /\ p \in gjob.stats_errors
            /\ p \in graph.files => p \in gjob.graph0.files
            /\ \A sym \in graph.symbols : sym.path = p => sym \in gjob.graph0.symbols
            /\ gjob.pc \in {"files", "done"}
            /\ gjob.pc = "done" => gjob.files = <<>>

\* C25: after every write transaction no Directory node without an outgoing
\* CONTAINS edge exists; a Directory that loses its last child through a file
\* deletion goes in the transaction that removed the child.
C25_NoDanglingDirectory ==
    \A d \in db.dirs : \E e \in db.contains : e[1] = d

\* C30: writing one file is a single write transaction: when the write fails
\* part-way, none of the nodes or edges of this write is left in the graph.
C30_FileWriteIsAtomic ==
    (tx.op = "add" /\ tx.failed) => db = tx.db0

\* C26: the status of a job only moves forward: a RUNNING job is never set
\* back to DISPATCHED or PENDING, and a COMPLETED or FAILED job never changes
\* again, whatever the interleaving of the API's updates with the worker's.
C26_StatusOnlyMovesForward ==
    [][\A j \in JobIds :
          tracker[j].exists =>
              /\ tracker[j].status = RUNNING =>
                     tracker'[j].status \notin {PENDING, DISPATCHED}
              /\ tracker[j].status \in Terminal =>
                     tracker'[j].status = tracker[j].status]_vars

\* C27: when enqueueing the ingestion task fails, for whatever reason, the
\* job record created for the request is FAILED, not PENDING, and the request
\* is answered with a 500.
C27_FailedDispatchFailsTheJob ==
    \A q \in ReqIds :
        (requests[q].pc = "done" /\ requests[q].created /\ requests[q].code # 200) =>
            /\ requests[q].code = 500
            /\ tracker[requests[q].job_id].status = FAILED

\* C28: an incremental update that cannot do its work, because the repository
\* is absent from the graph or its sync failed, ends with the job FAILED.
C28_UpdateThatCannotWorkFails ==
    \A h \in HandlerIds :
        (/\ handlers[h].pc = "done"
         /\ handlers[h].path \in IncrementalPaths
         /\ handlers[h].fault \in {"repo_not_in_graph", "sync_failed"}
         /\ handlers[h].wrote # None) =>
            handlers[h].wrote = FAILED

\* the task of job j is held by the queue and every worker is taken
WaitsForWorker(j) ==
    /\ \E t \in queue : t.job_id = j
    /\ \A h \in HandlerIds : handlers[h].pc # "idle"

\* C29: every job record the ingest endpoint creates eventually reaches
\* COMPLETED or FAILED when the queue delivers its task and the handler runs
\* to its end: no job stays in an active status forever.
C29_EveryJobEnds ==
    \A j \in ApiJobIds :
        []<>(\/ ~tracker[j].exists
             \/ tracker[j].status \in Terminal
             \/ WaitsForWorker(j))

\* C15: a task that runs past its dispatch deadline is marked FAILED by the
\* worker, which then exits: the handler of such a run never ends having
\* written another status than FAILED.
C15_DeadlineFailsJob ==
    \A h \in HandlerIds :
        (handlers[h].late /\ handlers[h].pc = "done") => handlers[h].wrote = FAILED

====
